---------------------------- MODULE Spec2Model ----------------------------
(***************************************************************************)
(* A model of blenderengine.PY: the Van der Corput generator corput, the   *)
(* pixel loop of CustomRenderEngine.render with RT_trace_ray, and the      *)
(* panel registration of register / unregister.                            *)
(*                                                                         *)
(* Python lists are functions on 0..len-1, so that the indices of the      *)
(* model are the indices of the code.                                      *)
(***************************************************************************)
EXTENDS Integers, Sequences, FiniteSets

(***************************************************************************)
(* Python floats.  A float is [neg, bits]: the sign and the set of the     *)
(* binary positions that are 1, position i weighing 2^(-i) (0 is 1.0, 1 is *)
(* 0.5, -1 is 2.0).  A float holds at most MantDig significant positions;  *)
(* every operation computes the exact result and rounds it to the nearest  *)
(* float, ties to even.  Exponent range is not modelled: no value of the   *)
(* program comes near its limits.                                          *)
(***************************************************************************)
MantDig == 53

Zero == [neg |-> FALSE, bits |-> {}]

Half == [neg |-> FALSE, bits |-> {1}]

(* the same set, held by its elements *)
Norm(S) == {i : i \in S}

Lead(S) == CHOOSE i \in S : \A j \in S : i <= j

Last(S) == CHOOSE i \in S : \A j \in S : j <= i

Min(a, b) == IF a <= b THEN a ELSE b

Max(a, b) == IF a >= b THEN a ELSE b

(* S + T, exactly: position i of the sum is 1 when one of S, T and the     *)
(* carry into i, or all three, are 1; the carry into i comes from a lower  *)
(* position where both are 1, through positions where one is               *)
MagAdd(S, T) ==
    IF S = {} THEN T
    ELSE IF T = {} THEN S
    ELSE LET lo == Min(Lead(S), Lead(T)) - 1
             hi == Max(Last(S), Last(T))
             Carry(i) == \E j \in (i + 1)..hi :
                            /\ j \in S /\ j \in T
                            /\ \A m \in (i + 1)..(j - 1) : m \in S \/ m \in T
         IN  {i \in lo..hi : ((i \in S) # (i \in T)) # Carry(i)}

(* S - T for S >= T, exactly, with the borrow in place of the carry *)
MagSub(S, T) ==
    IF T = {} THEN S
    ELSE LET lo == Lead(S)
             hi == Max(Last(S), Last(T))
             Borrow(i) == \E j \in (i + 1)..hi :
                             /\ j \notin S /\ j \in T
                             /\ \A m \in (i + 1)..(j - 1) : m \notin S \/ m \in T
         IN  {i \in lo..hi : ((i \in S) # (i \in T)) # Borrow(i)}

MagLess(S, T) ==
    LET D == (S \ T) \cup (T \ S)
    IN  D # {} /\ Lead(D) \in T

RoundHalfEven(S) ==
    IF S = {} THEN {}
    ELSE LET last == Lead(S) + MantDig - 1
             kept == Norm({i \in S : i <= last})
             guard == (last + 1) \in S
             sticky == \E i \in S : i > last + 1
         IN  IF guard /\ (sticky \/ last \in S) THEN MagAdd(kept, {last}) ELSE kept

FNeg(a) == [neg |-> ~a.neg, bits |-> a.bits]

FAdd(a, b) ==
    IF a.neg = b.neg
    THEN [neg |-> a.neg, bits |-> RoundHalfEven(MagAdd(a.bits, b.bits))]
    ELSE IF a.bits = b.bits THEN Zero
    ELSE IF MagLess(a.bits, b.bits)
         THEN [neg |-> b.neg, bits |-> RoundHalfEven(MagSub(b.bits, a.bits))]
         ELSE [neg |-> a.neg, bits |-> RoundHalfEven(MagSub(a.bits, b.bits))]

FSub(a, b) == FAdd(a, FNeg(b))

(* S * T, exactly: the sum of the copies of T shifted by the positions of S *)
RECURSIVE MagMul(_, _)
MagMul(S, T) ==
    IF S = {} THEN {}
    ELSE IF Lead(S) = Last(S) THEN {i + Lead(S) : i \in T}
    ELSE LET mid == (Lead(S) + Last(S)) \div 2
         IN  MagAdd(MagMul({i \in S : i <= mid}, T), MagMul({i \in S : i > mid}, T))

FMul(a, b) ==
    IF a.bits = {} \/ b.bits = {} THEN [neg |-> a.neg # b.neg, bits |-> {}]
    ELSE [neg |-> a.neg # b.neg, bits |-> RoundHalfEven(MagMul(a.bits, b.bits))]

(* Long division of the magnitude S by the integer d > 0, most significant *)
(* position first and eight positions a step: rem is the remainder so far, *)
(* acc the quotient so far.  It stops past the rounding position, where a  *)
(* last position stands for the rest of the quotient when that is not zero.*)
RECURSIVE LongDiv(_, _, _, _, _)
LongDiv(S, d, pos, rem, acc) ==
    LET more == rem # 0 \/ \E i \in S : i >= pos
    IN  IF ~more THEN acc
        ELSE IF acc # {} /\ pos > Lead(acc) + MantDig THEN Norm(acc \cup {pos})
        ELSE LET In(b) == IF (pos + b) \in S THEN 1 ELSE 0
                 chunk == 128 * In(0) + 64 * In(1) + 32 * In(2) + 16 * In(3)
                          + 8 * In(4) + 4 * In(5) + 2 * In(6) + In(7)
                 num == 256 * rem + chunk
                 quo == num \div d
                 out == {pos + b : b \in {c \in 0..7 : (quo \div (2 ^ (7 - c))) % 2 = 1}}
             IN  LongDiv(S, d, pos + 8, num % d, Norm(acc \cup out))

MagDiv(S, d) ==
    IF S = {} THEN {} ELSE RoundHalfEven(LongDiv(S, d, Lead(S), 0, {}))

RECURSIVE IntBits(_, _)
IntBits(r, e) ==
    IF r = 0 THEN {}
    ELSE Norm((IF r % 2 = 1 THEN {-e} ELSE {}) \cup IntBits(r \div 2, e + 1))

(* a / b of two ints a >= 0 and b > 0 *)
TrueDiv(a, b) == [neg |-> FALSE, bits |-> MagDiv(IntBits(a, 0), b)]

(* f / b of a float f and an int b > 0 *)
FDivInt(f, b) == [neg |-> f.neg, bits |-> MagDiv(f.bits, b)]

RECURSIVE OddPart(_)
OddPart(b) == IF b % 2 = 0 THEN OddPart(b \div 2) ELSE b

RECURSIVE TwoPart(_)
TwoPart(b) == IF b % 2 = 0 THEN 1 + TwoPart(b \div 2) ELSE 0

RECURSIVE Pow(_, _)
Pow(b, k) ==
    IF k = 0 THEN 1
    ELSE LET h == Pow(b, k \div 2) IN IF k % 2 = 0 THEN h * h ELSE h * h * b

(***************************************************************************)
(* corput.  The int n is held as its digits in the given base, least       *)
(* significant first and without leading zeros (0 is << >>), so that       *)
(* divmod(n, base) is (Tail(n), Head(n)) and "while n" is n # << >>; denom *)
(* is held as the count k of its multiplications by base, denom = base^k.  *)
(***************************************************************************)
RECURSIVE Digits(_, _)
Digits(i, base) ==
    IF i = 0 THEN << >> ELSE <<i % base>> \o Digits(i \div base, base)

(* remainder / denom with denom = base^k: the quotient by the odd part of  *)
(* denom, rounded, and scaled by its power of two, which is exact          *)
TrueDivPow(remainder, base, k) ==
    LET m == MagDiv(IntBits(remainder, 0), Pow(OddPart(base), k))
    IN  [neg |-> FALSE, bits |-> {i + TwoPart(base) * k : i \in m}]

(* one turn of the while loop *)
corput_iter(n, base, q, k) ==
    [n |-> Tail(n), q |-> FAdd(q, TrueDivPow(Head(n), base, k + 1)), k |-> k + 1]

(* the operands of the last subtraction exchanged *)
corput_return_swapped(q) == FSub(Half, q)

corput_return(q) == FSub(q, Half)

RECURSIVE corput_loop(_, _, _, _)
corput_loop(n, base, q, k) ==
    IF n = << >> THEN q
    ELSE LET st == corput_iter(n, base, q, k) IN corput_loop(st.n, base, st.q, st.k)

corput(n, base) == corput_return(corput_loop(n, base, Zero, 0))

(***************************************************************************)
(* The scene and the sizes of the model.                                   *)
(***************************************************************************)
MaxSize == 4

MaxHits == 1

sample_count == 1

range(n) == 0..(n - 1)

Pixels(w, h) == range(w) \X range(h)

RECURSIVE UpTo(_, _)
UpTo(P, m) ==
    IF m = 0 THEN {{}}
    ELSE LET less == UpTo(P, m - 1) IN less \cup {H \cup {p} : H \in less, p \in P}

(* The scenes of a w x h render: the rays through at most MaxHits pixels   *)
(* hit an object, or all but at most MaxHits do, and the ray cast raises   *)
(* an error for the ray through at most one pixel.  The ray of a pixel is  *)
(* named by the pixel: one render casts one ray through each.              *)
Scenes(w, h) ==
    LET few == UpTo(Pixels(w, h), MaxHits)
    IN  [size : {<<w, h>>},
         hits : few \cup {Pixels(w, h) \ H : H \in few},
         fails : UpTo(Pixels(w, h), 1)]

VARIABLES
    scene,                    \* depsgraph.scene: the resolution and the objects
    pc,                       \* where render is: start, loop, result, done, raised
    error,                    \* the exception render ended with, "" for none
    size_x, size_y,           \* self.size_x, self.size_y (0 before assignment)
    aspect_ratio, dx, dy,     \* the floats of lines 66 to 68
    corput_x, corput_y,       \* the offset tables
    rect,                     \* the pixel list (<< >> before it is made)
    s, y, x,                  \* the loop indices
    calls,                    \* history: the ray casts made, in order
    stores,                   \* history: the indices of rect stored to, in order
    sink,                     \* history: the rects written to the RenderResult
    todo, held,               \* pixel tasks not started / cast and not yet stored
    out_of_order,             \* history: a task stored before an earlier pixel's
    cn, cbase, cq, ck, cpc, cres, cn0,    \* one call of corput
    panels, registered, before            \* the host's panels

rvars == <<scene, pc, error, size_x, size_y, aspect_ratio, dx, dy, corput_x, corput_y,
           rect, s, y, x, calls, stores, sink>>

tvars == <<todo, held, out_of_order>>

cvars == <<cn, cbase, cq, ck, cpc, cres, cn0>>

pvars == <<panels, registered, before>>

vars == <<rvars, tvars, cvars, pvars>>

(* the parts of the state a specification does not use *)
(* render not yet entered *)
AtStart ==
    /\ pc = "start" /\ error = "" /\ size_x = 0 /\ size_y = 0
    /\ aspect_ratio = Zero /\ dx = Zero /\ dy = Zero
    /\ corput_x = << >> /\ corput_y = << >> /\ rect = << >>
    /\ s = 0 /\ y = 0 /\ x = 0
    /\ calls = << >> /\ stores = << >> /\ sink = << >>

NoRender == scene = [size |-> <<0, 0>>, hits |-> {}, fails |-> {}] /\ AtStart

NoTasks == todo = {} /\ held = << >> /\ out_of_order = FALSE

NoCorput ==
    /\ cn = << >> /\ cbase = 2 /\ cq = Zero /\ ck = 0
    /\ cpc = "idle" /\ cres = Zero /\ cn0 = << >>

NoPanels == panels = << >> /\ registered = FALSE /\ before = << >>

(***************************************************************************)
(* RT_trace_ray and the body of the pixel loop.  The direction of a ray is *)
(* held as the pixel and the offsets it is computed from: the vector, its  *)
(* rotation and its normalisation are the host's.                          *)
(***************************************************************************)
ray_dir(px, py, ps) == [x |-> px, y |-> py, jx |-> corput_x[ps], jy |-> corput_y[ps]]

ray_cast(sc, dir) ==
    [raised |-> <<dir.x, dir.y>> \in sc.fails, has_hit |-> <<dir.x, dir.y>> \in sc.hits]

(* RT_trace_ray with the test of has_hit reversed *)
RT_trace_ray_reversed(sc, dir) ==
    LET cast == ray_cast(sc, dir)
    IN  IF cast.raised THEN [raised |-> TRUE, color |-> << >>]
        ELSE IF cast.has_hit THEN [raised |-> FALSE, color |-> <<0, 0, 0>>]
        ELSE [raised |-> FALSE, color |-> <<1, 0, 0>>]

RT_trace_ray(sc, dir) ==
    LET cast == ray_cast(sc, dir)
    IN  IF cast.raised THEN [raised |-> TRUE, color |-> << >>]
        ELSE IF ~cast.has_hit THEN [raised |-> FALSE, color |-> <<0, 0, 0>>]
        ELSE [raised |-> FALSE, color |-> <<1, 0, 0>>]

(* a pixel stored with alpha 0 *)
pixel_of_clear(color) == <<color[1], color[2], color[3], 0>>

(* [r, g, b, 1.0] *)
pixel_of(color) == <<color[1], color[2], color[3], 1>>

(* the index without the row stride *)
rect_index_no_stride(px, py) == py + px

(* y*self.size_x + x *)
rect_index(px, py) == py * size_x + px

(* rect = [color] * pixel_count *)
new_rect(pixel_count) == [i \in range(pixel_count) |-> <<0, 0, 0, 1>>]

(* rect[y*self.size_x + x] = [r, g, b, 1.0] *)
store_pixel(r, px, py, color) == [r EXCEPT ![rect_index(px, py)] = pixel_of(color)]

(* the table built from the indices 1..sample_count *)
corput_table_from_one(base, scale) ==
    [i \in range(sample_count) |-> FMul(corput(Digits(i + 1, base), base), scale)]

(* [corput(i, base) * scale for i in range(sample_count)] *)
corput_table(base, scale) ==
    [i \in range(sample_count) |-> FMul(corput(Digits(i, base), base), scale)]

(***************************************************************************)
(* CustomRenderEngine.render, one action a step: the setup up to the pixel *)
(* loop, one turn of the pixel loop, and the write of the result.  The     *)
(* resolution of the scene is the scaled one, int(resolution * scale).     *)
(***************************************************************************)
Init ==
    /\ \E w \in 0..MaxSize, h \in 0..MaxSize : scene \in Scenes(w, h)
    /\ AtStart /\ NoTasks /\ NoCorput /\ NoPanels

(* lines 56 to 80; height / width and aspect_ratio / height raise          *)
(* ZeroDivisionError on a zero divisor                                     *)
RenderSetup ==
    LET width == scene.size[1]
        height == scene.size[2]
    IN  /\ pc = "start"
        /\ size_x' = width
        /\ size_y' = height
        /\ IF width = 0 \/ height = 0
           THEN /\ pc' = "raised"
                /\ error' = "ZeroDivisionError"
                /\ UNCHANGED <<aspect_ratio, dx, dy, corput_x, corput_y, rect>>
           ELSE /\ aspect_ratio' = TrueDiv(height, width)
                /\ dx' = TrueDiv(1, width)
                /\ dy' = FDivInt(aspect_ratio', height)
                /\ corput_x' = corput_table(2, dx')
                /\ corput_y' = corput_table(3, dy')
                /\ rect' = new_rect(width * height)
                /\ pc' = "loop"
                /\ error' = ""
        /\ UNCHANGED <<scene, s, y, x, calls, stores, sink, tvars, cvars, pvars>>

(* the loops with every row after the first starting at column 1 *)
next_index_skip(ps, py, px) ==
    IF px + 1 < size_x THEN [s |-> ps, y |-> py, x |-> px + 1, more |-> TRUE]
    ELSE IF py + 1 < size_y
         THEN [s |-> ps, y |-> py + 1, x |-> IF size_x > 1 THEN 1 ELSE 0, more |-> TRUE]
    ELSE IF ps + 1 < sample_count THEN [s |-> ps + 1, y |-> 0, x |-> 0, more |-> TRUE]
    ELSE [s |-> ps, y |-> py, x |-> px, more |-> FALSE]

(* the indices after pixel (px, py) of pass ps, and whether the loops go on *)
next_index(ps, py, px) ==
    IF px + 1 < size_x THEN [s |-> ps, y |-> py, x |-> px + 1, more |-> TRUE]
    ELSE IF py + 1 < size_y THEN [s |-> ps, y |-> py + 1, x |-> 0, more |-> TRUE]
    ELSE IF ps + 1 < sample_count THEN [s |-> ps + 1, y |-> 0, x |-> 0, more |-> TRUE]
    ELSE [s |-> ps, y |-> py, x |-> px, more |-> FALSE]

(* the pixel loop with the error of the ray cast caught and the pixel left *)
PixelStepSwallow ==
    LET dir == ray_dir(x, y, s)
        traced == RT_trace_ray(scene, dir)
        nxt == next_index(s, y, x)
    IN  /\ pc = "loop"
        /\ calls' = Append(calls, [s |-> s, dir |-> dir, raised |-> traced.raised,
                                   hit |-> ray_cast(scene, dir).has_hit])
        /\ rect' = IF traced.raised THEN rect ELSE store_pixel(rect, x, y, traced.color)
        /\ stores' = IF traced.raised THEN stores ELSE Append(stores, rect_index(x, y))
        /\ s' = nxt.s /\ y' = nxt.y /\ x' = nxt.x
        /\ pc' = IF nxt.more THEN "loop" ELSE "result"
        /\ error' = ""
        /\ UNCHANGED <<scene, size_x, size_y, aspect_ratio, dx, dy, corput_x, corput_y,
                       sink, tvars, cvars, pvars>>

(* lines 82 to 97, one pixel: an error of the ray cast leaves render *)
PixelStep ==
    LET dir == ray_dir(x, y, s)
        traced == RT_trace_ray(scene, dir)
        nxt == next_index(s, y, x)
    IN  /\ pc = "loop"
        /\ calls' = Append(calls, [s |-> s, dir |-> dir, raised |-> traced.raised,
                                   hit |-> ray_cast(scene, dir).has_hit])
        /\ IF traced.raised
           THEN /\ pc' = "raised"
                /\ error' = "SceneError"
                /\ UNCHANGED <<rect, stores, s, y, x>>
           ELSE /\ rect' = store_pixel(rect, x, y, traced.color)
                /\ stores' = Append(stores, rect_index(x, y))
                /\ s' = nxt.s /\ y' = nxt.y /\ x' = nxt.x
                /\ pc' = IF nxt.more THEN "loop" ELSE "result"
                /\ error' = ""
        /\ UNCHANGED <<scene, size_x, size_y, aspect_ratio, dx, dy, corput_x, corput_y,
                       sink, tvars, cvars, pvars>>

(* lines 100 to 103 *)
WriteResult ==
    /\ pc = "result"
    /\ sink' = Append(sink, [x |-> 0, y |-> 0, w |-> size_x, h |-> size_y, rect |-> rect])
    /\ pc' = "done"
    /\ UNCHANGED <<scene, error, size_x, size_y, aspect_ratio, dx, dy, corput_x, corput_y,
                   rect, s, y, x, calls, stores, tvars, cvars, pvars>>

Next == RenderSetup \/ PixelStep \/ WriteResult

Spec == Init /\ [][Next]_vars

(* render of the scenes where every ray hits or every ray misses *)
InitUniform ==
    /\ \E w \in 0..MaxSize, h \in 0..MaxSize :
          scene \in {sc \in Scenes(w, h) : sc.fails = {} /\ sc.hits \in {{}, Pixels(w, h)}}
    /\ AtStart /\ NoTasks /\ NoCorput /\ NoPanels

SpecUniform == InitUniform /\ [][Next]_vars

(***************************************************************************)
(* The pixels of one pass as tasks run in any order and interleaved: a     *)
(* task casts its ray and later stores its pixel, as the loop body does.   *)
(* The histories calls and stores are not kept here.                       *)
(***************************************************************************)
MaxPar == 2

InitAnyOrder ==
    /\ \E w \in 1..MaxPar, h \in 1..MaxPar :
          /\ scene \in {sc \in Scenes(w, h) : sc.fails = {}}
          /\ todo = Pixels(w, h)
    /\ held = << >> /\ out_of_order = FALSE
    /\ AtStart /\ NoCorput /\ NoPanels

(* lines 87 to 93 for the pixel p *)
TaskCast(p) ==
    LET dir == ray_dir(p[1], p[2], s)
        traced == RT_trace_ray(scene, dir)
    IN  /\ pc = "loop"
        /\ p \in todo
        /\ todo' = todo \ {p}
        /\ held' = [t \in DOMAIN held \cup {p} |-> IF t = p THEN traced.color ELSE held[t]]
        /\ UNCHANGED <<scene, pc, error, size_x, size_y, aspect_ratio, dx, dy, corput_x,
                       corput_y, rect, s, y, x, calls, stores, sink, out_of_order,
                       cvars, pvars>>

(* lines 96 to 97 for the pixel p; the loop ends with the last store *)
TaskStore(p) ==
    /\ pc = "loop"
    /\ p \in DOMAIN held
    /\ rect' = store_pixel(rect, p[1], p[2], held[p])
    /\ held' = [t \in DOMAIN held \ {p} |-> held[t]]
    /\ out_of_order' = (out_of_order \/ \E t \in (todo \cup DOMAIN held) \ {p} :
                                           rect_index(t[1], t[2]) < rect_index(p[1], p[2]))
    /\ pc' = IF todo = {} /\ DOMAIN held = {p} THEN "result" ELSE "loop"
    /\ UNCHANGED <<scene, error, size_x, size_y, aspect_ratio, dx, dy, corput_x, corput_y,
                   s, y, x, calls, stores, sink, todo, cvars, pvars>>

NextAnyOrder ==
    \/ RenderSetup
    \/ \E p \in todo : TaskCast(p)
    \/ \E p \in DOMAIN held : TaskStore(p)
    \/ WriteResult

SpecAnyOrder == InitAnyOrder /\ [][NextAnyOrder]_vars

(* the rect the loop of lines 82 to 97 leaves, from pixel (px, py) of pass ps on *)
RECURSIVE run_loop(_, _, _, _)
run_loop(r, ps, py, px) ==
    LET traced == RT_trace_ray(scene, ray_dir(px, py, ps))
        stored == store_pixel(r, px, py, traced.color)
        nxt == next_index(ps, py, px)
    IN  IF nxt.more THEN run_loop(stored, nxt.s, nxt.y, nxt.x) ELSE stored

(***************************************************************************)
(* One call of corput, one action a turn of its loop.                      *)
(***************************************************************************)
MaxBase == 3

MaxDigits == 3

MaxRun == 55

(* the ints below base^MaxDigits and, in base 2, the ints 2^k - 1 up to    *)
(* k = MaxRun, which have more digits than a float has positions           *)
Ints(base) ==
    LET short == UNION {[1..l -> range(base)] : l \in 0..MaxDigits}
    IN  {n \in short : n = << >> \/ n[Len(n)] # 0}
        \cup (IF base = 2 THEN {[i \in 1..l |-> 1] : l \in 0..MaxRun} ELSE {})

InitCorput ==
    /\ \E base \in 2..MaxBase : \E n \in Ints(base) :
          cn = n /\ cn0 = n /\ cbase = base
    /\ cq = Zero /\ ck = 0 /\ cpc = "loop" /\ cres = Zero
    /\ NoRender /\ NoTasks /\ NoPanels

(* lines 11 to 14 *)
CorputIter ==
    /\ cpc = "loop"
    /\ cn # << >>
    /\ LET st == corput_iter(cn, cbase, cq, ck)
       IN  cn' = st.n /\ cq' = st.q /\ ck' = st.k
    /\ UNCHANGED <<cbase, cpc, cres, cn0, rvars, tvars, pvars>>

(* line 15 *)
CorputReturn ==
    /\ cpc = "loop"
    /\ cn = << >>
    /\ cres' = corput_return(cq)
    /\ cpc' = "done"
    /\ UNCHANGED <<cn, cbase, cq, ck, cn0, rvars, tvars, pvars>>

NextCorput == CorputIter \/ CorputReturn

SpecCorput == InitCorput /\ [][NextCorput]_vars

(***************************************************************************)
(* register and unregister over the host's panels.  A panel is its name,   *)
(* whether it has COMPAT_ENGINES, and that set.                            *)
(***************************************************************************)
PanelNames ==
    {"VIEWLAYER_PT_filter", "VIEWLAYER_PT_layer_passes", "RENDER_PT_context", "DATA_PT_lens"}

Engines == {"BLENDER_RENDER", "BLENDER_EEVEE", "CUSTOM"}

PanelStates ==
    {[has |-> FALSE, compat |-> {}]} \cup [has : {TRUE}, compat : SUBSET Engines]

exclude_panels == {"VIEWLAYER_PT_filter", "VIEWLAYER_PT_layer_passes"}

get_panels(ps) ==
    {p \in DOMAIN ps :
        ps[p].has /\ "BLENDER_RENDER" \in ps[p].compat /\ p \notin exclude_panels}

InitPanels ==
    /\ panels \in [PanelNames -> PanelStates]
    /\ registered = FALSE
    /\ before = << >>
    /\ NoRender /\ NoTasks /\ NoCorput

(* register(); before is the panels it found *)
Register ==
    /\ ~registered
    /\ registered' = TRUE
    /\ before' = panels
    /\ panels' = [p \in DOMAIN panels |->
                    IF p \in get_panels(panels)
                    THEN [panels[p] EXCEPT !.compat = @ \cup {"CUSTOM"}]
                    ELSE panels[p]]
    /\ UNCHANGED <<rvars, tvars, cvars>>

(* unregister() *)
Unregister ==
    /\ registered
    /\ registered' = FALSE
    /\ panels' = [p \in DOMAIN panels |->
                    IF p \in get_panels(panels) /\ "CUSTOM" \in panels[p].compat
                    THEN [panels[p] EXCEPT !.compat = @ \ {"CUSTOM"}]
                    ELSE panels[p]]
    /\ UNCHANGED <<before, rvars, tvars, cvars>>

NextPanels == Register \/ Unregister

SpecPanels == InitPanels /\ [][NextPanels]_vars
(***************************************************************************)
(* The properties.                                                         *)
(***************************************************************************)
Red == <<1, 0, 0, 1>>

Black == <<0, 0, 0, 1>>

Width == scene.size[1]

Height == scene.size[2]

(* rect has been made: render is in or past the pixel loop *)
Created == pc \in {"loop", "result", "done"} \/ (pc = "raised" /\ error = "SceneError")

(* C1: when render has completed, the slot y*width + x of every pixel      *)
(* (x, y) is red if the ray cast for that pixel reported a hit and black   *)
(* otherwise.                                                              *)
C1_PixelsFollowHits ==
    pc = "done" =>
        \A px \in range(Width), py \in range(Height) :
            \E i \in 1..Len(calls) :
                /\ calls[i].dir.x = px /\ calls[i].dir.y = py
                /\ rect[py * Width + px] = IF calls[i].hit THEN Red ELSE Black

(* a completed 4 x 4 render whose only hit is pixel (2, 2): slot 10 alone is red *)
C1_Witness ==
    /\ pc = "done" /\ scene.size = <<4, 4>> /\ scene.hits = {<<2, 2>>}
    /\ rect[10] = Red
    /\ \A i \in range(16) \ {10} : rect[i] = Black

(* C2: from the making of rect to its hand-over, rect has width*height     *)
(* entries and every entry has alpha 1.0, and so has the rect handed over. *)
C2_RectShape ==
    /\ Created =>
          /\ DOMAIN rect = range(Width * Height)
          /\ \A i \in DOMAIN rect : Len(rect[i]) = 4 /\ rect[i][4] = 1
    /\ \A k \in 1..Len(sink) :
          /\ DOMAIN sink[k].rect = range(Width * Height)
          /\ \A i \in DOMAIN sink[k].rect : sink[k].rect[i][4] = 1

(* inside the loop, with a red pixel stored and pixels still to come *)
C2_Witness ==
    /\ pc = "loop" /\ stores # << >> /\ Len(stores) < Width * Height
    /\ \E i \in DOMAIN rect : rect[i] = Red

(* C3: a render of width 0 or height 0 fails with InvalidResolution before *)
(* the pixel loop, casts no ray and writes no result.                      *)
C3_InvalidResolution ==
    (pc # "start" /\ (Width = 0 \/ Height = 0)) =>
        /\ pc = "raised" /\ error = "InvalidResolution"
        /\ calls = << >> /\ sink = << >>

(* C4: corput(n, b) is at least -0.5 and below 0.5, the accumulated q      *)
(* being at least 0 and below 1.                                           *)
C4_CorputRange ==
    /\ cpc \in {"loop", "done"} => ~cq.neg /\ MagLess(cq.bits, {0})
    /\ cpc = "done" =>
          /\ cres.neg \/ MagLess(cres.bits, {1})
          /\ ~cres.neg \/ ~MagLess({1}, cres.bits)

(* C5: corput(0, b) is exactly -0.5, the loop making no turn and adding no *)
(* digit.                                                                  *)
C5_CorputZero ==
    (cpc = "done" /\ cn0 = << >>) =>
        /\ cres = [neg |-> TRUE, bits |-> {1}]
        /\ ck = 0 /\ cq = Zero

C5_Witness == cpc = "done" /\ cn0 = << >> /\ cbase = 3 /\ cres.neg

(* the offsets of the pass with index i (the first pass has index 0) when  *)
(* the generator is fed the index n                                        *)
OffsetsAre(i, n) ==
    /\ corput_x[i] = FMul(corput(Digits(n, 2), 2), TrueDiv(1, Width))
    /\ corput_y[i] = FMul(corput(Digits(n, 3), 3), FDivInt(TrueDiv(Height, Width), Height))

OneOffsetPerPass ==
    /\ DOMAIN corput_x = range(sample_count) /\ DOMAIN corput_y = range(sample_count)
    /\ \A i \in 1..Len(calls) :
          calls[i].dir.jx = corput_x[calls[i].s] /\ calls[i].dir.jy = corput_y[calls[i].s]

(* C6 as stated: one offset a pass, used for every pixel of the pass, the  *)
(* s-th pass (s = 1..sample_count) having the offsets of corput(s, .).     *)
C6_OffsetsFromOne ==
    Created => OneOffsetPerPass /\ \A i \in range(sample_count) : OffsetsAre(i, i + 1)

(* C6 as amended: one offset a pass, used for every pixel of the pass, the *)
(* s-th pass (s = 1..sample_count) having the offsets of corput(s - 1, .): *)
(* the generator is fed 0..sample_count-1.                                 *)
C6_OffsetsFromZero ==
    Created => OneOffsetPerPass /\ \A i \in range(sample_count) : OffsetsAre(i, i)

(* a completed render of several pixels, all cast with the one offset *)
C6_Witness ==
    /\ pc = "done" /\ Len(calls) > 1
    /\ \A i \in 1..Len(calls) : calls[i].dir.jx.neg /\ calls[i].dir.jx = calls[1].dir.jx

(* C7: an error of the ray cast ends render with that error: it is the     *)
(* last cast, no ray is cast twice, and no result is written.              *)
C7_SceneErrorAborts ==
    /\ \A i \in 1..Len(calls) :
          calls[i].raised =>
              /\ i = Len(calls)
              /\ pc = "raised" /\ error = "SceneError"
              /\ sink = << >>
    /\ \A i, j \in 1..Len(calls) : calls[i].dir = calls[j].dir => i = j

(* the cast raised inside the loop, after pixels were stored and before others *)
C7_Witness ==
    /\ pc = "raised" /\ error = "SceneError"
    /\ stores # << >> /\ Len(calls) < Width * Height
    /\ calls[Len(calls)].raised

(* C8: with one pass, the pixel tasks run in any order and interleaving    *)
(* leave the rect that the row-major loop leaves.                          *)
C8_OrderIndependent ==
    /\ pc \in {"result", "done"} => rect = run_loop(new_rect(Width * Height), 0, 0, 0)
    /\ \A k \in 1..Len(sink) : sink[k].rect = run_loop(new_rect(Width * Height), 0, 0, 0)

(* a completed render whose tasks did not store in row-major order *)
C8_Witness ==
    /\ pc = "done" /\ out_of_order
    /\ \E i, j \in DOMAIN rect : rect[i] = Red /\ rect[j] = Black

(* C9: a completed render has cast width*height rays in row-major order    *)
(* and stored to every slot once, in index order; the result is written    *)
(* once, with that rect, and only after the last store.                    *)
C9_EachPixelOnce ==
    /\ pc = "done" =>
          /\ Len(calls) = Width * Height
          /\ \A i \in 1..Len(calls) :
                /\ calls[i].dir.x = (i - 1) % Width
                /\ calls[i].dir.y = (i - 1) \div Width
          /\ stores = [i \in 1..(Width * Height) |-> i - 1]
          /\ Len(sink) = 1 /\ sink[1].rect = rect
    /\ sink # << >> => pc = "done" /\ Len(stores) = Width * Height
    /\ pc \in {"start", "loop", "result", "raised"} => sink = << >>

(* a completed render of 3 columns and 2 rows *)
C9_Witness ==
    /\ pc = "done" /\ scene.size = <<3, 2>>
    /\ Len(stores) = 6 /\ Len(sink) = 1

(* C10: register adds CUSTOM to the panels that list BLENDER_RENDER and are *)
(* not excluded and leaves the others; register then unregister restores   *)
(* every panel.                                                            *)
C10_RegisterRoundTrip ==
    /\ registered =>
          \A p \in PanelNames :
              panels[p] = IF before[p].has /\ "BLENDER_RENDER" \in before[p].compat
                             /\ p \notin exclude_panels
                          THEN [before[p] EXCEPT !.compat = @ \cup {"CUSTOM"}]
                          ELSE before[p]
    /\ (~registered /\ before # << >>) => panels = before

=============================================================================
